---- MODULE Spec2Model ----
(***************************************************************************)
(* Frame cache, channel demultiplexing and random-access reading of the    *)
(* IBL widefield conversion (ibl_widefield_to_nwb.widefield2025).          *)
(*                                                                         *)
(*   Spec           build_frame_cache and the convert_raw_session gate     *)
(*                  (build -> validate -> construct -> run)                *)
(*   SpecExtractor  WidefieldImagingExtractor on a built cache: camera log *)
(*                  parsing, channel selection and get_series              *)
(*   SpecReaders    several extractors alive on one cache folder, reading  *)
(*                  it in any interleaving                                 *)
(*   SpecTimes      the aligned times of one excitation wavelength         *)
(*                  (utils/_widefield_times.py)                            *)
(*   SpecNidq       the NIDQ metadata built from the wiring                *)
(*                  (utils/_nidq_wiring.py)                                *)
(*   SpecDownload   download_widefield_session (conversion/download.py)    *)
(*   SpecConverter  WidefieldImagingInterface and the temporal alignment   *)
(*                  of WidefieldRawNWBConverter (nwbconverter.py)          *)
(***************************************************************************)
EXTENDS Integers, Sequences, FiniteSets, TLC

\* Largest frame count a video reports, and largest number it delivers.
MaxFrames == 3

\* Largest number of lines of a camera log.
MaxLog == 3

\* Largest length of the aligned-times and light-source arrays.
MaxTimes == 3

\* Largest number of extractors that are alive on one cache folder at a time.
MaxReaders == 2

VARIABLES
    cache,        \* the caller-supplied cache folder: frames.dat and meta.json
    tmp,          \* the directory tempfile.mkdtemp made for the running call
    bpc,          \* position inside build_frame_cache
    call,         \* arguments of the running build_frame_cache call
    loc,          \* locals of the running build_frame_cache call
    ret,          \* value the last build_frame_cache call returned
    err,          \* exception the last build_frame_cache call raised
    pre,          \* content of the target folder when the call was entered
    ppc,          \* position inside convert_raw_session
    perr,         \* which step of convert_raw_session raised
    passed,       \* the steps of convert_raw_session that have returned
    constructed,  \* imaging interfaces constructed by the running session
    camlog,       \* the lines of the camera log file
    ex,           \* the WidefieldImagingExtractor object
    series,       \* outcome of the last get_series call
    al,           \* the call of _get_imaging_times_by_excitation_wavelength_nm
    cv,           \* the WidefieldRawNWBConverter, its interfaces and its inputs
    nq,           \* the call of _build_nidq_metadata_from_wiring
    dl,           \* the call of download_widefield_session and the ONE cache
    rd            \* the other extractors alive on the cache folder, and their reads

vars == <<cache, tmp, bpc, call, loc, ret, err, pre, ppc, perr, passed, constructed,
          camlog, ex, series, al, cv, nq, dl, rd>>

\* The state of build_frame_cache and convert_raw_session.
bvars == <<tmp, bpc, call, loc, ret, err, pre, ppc, perr, passed, constructed>>

\* The state of the extractor and its inputs.
xvars == <<camlog, ex, series>>

\* The state of the selection of aligned times.
tvars == <<al>>

\* The state of the converter, of the NIDQ metadata, of the download and of
\* the other extractors.
ovars == <<cv, nq, dl, rd>>

Min(a, b) == IF a < b THEN a ELSE b

(***************************************************************************)
(* Files                                                                   *)
(***************************************************************************)
NoMeta == [total_num_samples |-> 0, height |-> 0, width |-> 0, dtype |-> "", fps |-> 0]

\* A cache folder without frames.dat and without meta.json.
EmptyFolder == [hasDat |-> FALSE, dat |-> <<>>, hasMeta |-> FALSE, meta |-> NoMeta]

\* One pixel in OpenCV's channel order <<blue, green, red>>.
Pixels == {<<0, 0, 255>>, <<255, 255, 255>>}

\* A frame is its pixels in row-major order; every modelled video is 1 x 1.
FrameShape == <<1, 1, 3>>

FramesOfLength(k) == [1..k -> [1..(FrameShape[1] * FrameShape[2]) -> Pixels]]

\* A video: the frame count it reports, the frames it delivers, its rate.
Videos ==
    UNION {UNION {{[count |-> n, frames |-> fr, shape |-> FrameShape,
                    dtype |-> "uint8", fps |-> 60] : fr \in FramesOfLength(k)}
                  : k \in 1..MaxFrames} : n \in 1..MaxFrames}

AnyVideo == CHOOSE v \in Videos : v.count = 1 /\ Len(v.frames) = 1

\* A source folder is the list of its '*.frames.mov' files.
SourceFolders == {<<>>} \cup {<<v>> : v \in Videos} \cup {<<AnyVideo, AnyVideo>>}

\* cache_folder_path: a folder, or None.
CacheArgs == {"cache", "None"}

(***************************************************************************)
(* build_frame_cache                                                       *)
(***************************************************************************)
\* cache_folder_path or tempfile.mkdtemp(...)
TargetOf(cache_folder_path) == IF cache_folder_path = "None" THEN "tmp" ELSE "cache"

Folder(target) == IF target = "tmp" THEN tmp ELSE cache

\* data_path.exists() and not overwrite
ShortCircuit_IgnoresExisting(folder, overwrite) == FALSE

ShortCircuit(folder, overwrite) == folder.hasDat /\ ~overwrite

\* The outcome of the glob of '*.frames.mov'.
GlobResult_TakesFirst(movie_file_paths) ==
    IF Len(movie_file_paths) = 0 THEN "FileNotFoundError" ELSE "ok"

GlobResult(movie_file_paths) ==
    IF Len(movie_file_paths) = 0 THEN "FileNotFoundError"
    ELSE IF Len(movie_file_paths) > 1 THEN "ValueError"
    ELSE "ok"

Zeros(n) == [i \in 1..n |-> 0]

\* np.memmap(..., mode="w+", shape=(n, height, width)) works on the file in
\* two steps.  First the file is opened in mode 'w+b': it is created, or cut
\* to 0 bytes.
Truncate_KeepsOldBytes(folder) == [folder EXCEPT !.hasDat = TRUE]

Truncate(folder) == [folder EXCEPT !.hasDat = TRUE, !.dat = <<>>]

\* Then a file shorter than n * height * width bytes is extended to that
\* length; the new bytes are zero.
Extend(folder, n, height, width) ==
    IF Len(folder.dat) < n * height * width
    THEN [folder EXCEPT !.dat = @ \o Zeros(n * height * width - Len(@))]
    ELSE folder

\* The file as np.memmap(mode="w+") leaves it.
Allocate(folder, n, height, width) == Extend(Truncate(folder), n, height, width)

\* open(meta_path, "w") (line 93): meta.json is created, or cut to 0 bytes; a
\* meta.json of 0 bytes holds no record.
OpenForWriting(folder) == [folder EXCEPT !.hasMeta = TRUE, !.meta = NoMeta]

\* json.load of meta.json raises on a file of 0 bytes.
MetaParsable(folder) == folder.hasMeta /\ folder.meta # NoMeta

\* cv2.cvtColor(frame, cv2.COLOR_BGR2GRAY) on 8-bit pixels: the fixed-point
\* luma  (1868 B + 9617 G + 4899 R + 2^13) >> 14.
GrayPixel(p) == (1868 * p[1] + 9617 * p[2] + 4899 * p[3] + 8192) \div 16384

BGR2GRAY(frame) == [i \in 1..Len(frame) |-> GrayPixel(frame[i])]

\* mem[frame_index] = gray, on the flat file.
WriteRow(dat, frame_index, gray) ==
    [i \in 1..Len(dat) |->
        IF i > frame_index * Len(gray) /\ i <= (frame_index + 1) * Len(gray)
        THEN gray[i - frame_index * Len(gray)] ELSE dat[i]]

\* The record json.dump writes to meta.json.
MetaRecord_ReportedCount(frame_index, total_num_samples, height, width, dtype, fps) ==
    [total_num_samples |-> total_num_samples, height |-> height, width |-> width,
     dtype |-> dtype, fps |-> fps]

MetaRecord(frame_index, total_num_samples, height, width, dtype, fps) ==
    [total_num_samples |-> frame_index, height |-> height, width |-> width,
     dtype |-> dtype, fps |-> fps]

\* The order of the statements after the frame loop (lines 81-94): flush and
\* release, then meta.json is opened for writing, then the record is dumped,
\* then the sizes and the return.
StepAfter_MetaFirst(step) ==
    CASE step = "loop" -> "meta"
      [] step = "meta" -> "dump"
      [] step = "dump" -> "flush"
      [] step = "flush" -> "stat"

StepAfter(step) ==
    CASE step = "loop" -> "flush"
      [] step = "flush" -> "meta"
      [] step = "meta" -> "dump"
      [] step = "dump" -> "stat"

\* The value of the return statement that ends a full build.
BuildReturnValue(cache_folder_path) == "None"

NoLocals ==
    [video |-> AnyVideo, opened |-> FALSE, released |-> FALSE, pos |-> 0,
     total_num_samples |-> 0, frame_index |-> 0,
     mem |-> "none", metaWritten |-> FALSE]

NoCall == [folder_path |-> <<>>, cache_folder_path |-> "cache", overwrite |-> FALSE,
           target |-> "cache", caller |-> "none"]

SetFolder(target, f) ==
    /\ cache' = IF target = "cache" THEN f ELSE cache
    /\ tmp'   = IF target = "tmp" THEN f ELSE tmp

\* Entry: lines 41-44.  mkdtemp makes a new, empty directory.
BuildEnter(folder_path, cache_folder_path, overwrite, caller) ==
    /\ bpc' = "check"
    /\ call' = [folder_path |-> folder_path, cache_folder_path |-> cache_folder_path,
                overwrite |-> overwrite, target |-> TargetOf(cache_folder_path),
                caller |-> caller]
    /\ loc' = NoLocals
    /\ ret' = "unset"
    /\ err' = "none"
    /\ tmp' = EmptyFolder
    /\ pre' = IF TargetOf(cache_folder_path) = "tmp" THEN EmptyFolder ELSE cache
    /\ UNCHANGED cache

\* A direct call of build_frame_cache.
BuildCall ==
    /\ UNCHANGED xvars
    /\ UNCHANGED tvars
    /\ UNCHANGED ovars
    /\ bpc = "idle"
    /\ ppc = "idle"
    /\ \E folder_path \in SourceFolders, cache_folder_path \in CacheArgs,
          overwrite \in BOOLEAN :
          BuildEnter(folder_path, cache_folder_path, overwrite, "direct")
    /\ UNCHANGED <<ppc, perr, passed, constructed>>

\* Lines 46-48.
BuildCheck ==
    /\ UNCHANGED xvars
    /\ UNCHANGED tvars
    /\ UNCHANGED ovars
    /\ bpc = "check"
    /\ IF ShortCircuit(Folder(call.target), call.overwrite)
       THEN /\ bpc' = "returned"
            /\ ret' = call.target
       ELSE /\ bpc' = "glob"
            /\ ret' = ret
    /\ UNCHANGED <<cache, tmp, call, loc, err, pre, ppc, perr, passed, constructed>>

\* Lines 50-57.
BuildGlob ==
    /\ UNCHANGED xvars
    /\ UNCHANGED tvars
    /\ UNCHANGED ovars
    /\ bpc = "glob"
    /\ IF GlobResult(call.folder_path) = "ok"
       THEN /\ bpc' = "open"
            /\ err' = err
       ELSE /\ bpc' = "raised"
            /\ err' = GlobResult(call.folder_path)
    /\ UNCHANGED <<cache, tmp, call, loc, ret, pre, ppc, perr, passed, constructed>>

\* Lines 59-65.
BuildOpen ==
    /\ UNCHANGED xvars
    /\ UNCHANGED tvars
    /\ UNCHANGED ovars
    /\ bpc = "open"
    /\ bpc' = "alloc"
    /\ loc' = [loc EXCEPT !.video = call.folder_path[1], !.opened = TRUE,
                          !.total_num_samples = call.folder_path[1].count]
    /\ UNCHANGED <<cache, tmp, call, ret, err, pre, ppc, perr, passed, constructed>>

\* Line 68, first half: np.memmap opens frames.dat in mode 'w+b'.
BuildTruncate ==
    /\ UNCHANGED xvars
    /\ UNCHANGED tvars
    /\ UNCHANGED ovars
    /\ bpc = "alloc"
    /\ bpc' = "extend"
    /\ SetFolder(call.target, Truncate(Folder(call.target)))
    /\ UNCHANGED <<call, loc, ret, err, pre, ppc, perr, passed, constructed>>

\* Lines 68-70, second half: the file gets its length and is mapped.
BuildAllocate ==
    /\ UNCHANGED xvars
    /\ UNCHANGED tvars
    /\ UNCHANGED ovars
    /\ bpc = "extend"
    /\ bpc' = "loop"
    /\ SetFolder(call.target,
                 Extend(Folder(call.target), loc.total_num_samples,
                        loc.video.shape[1], loc.video.shape[2]))
    /\ loc' = [loc EXCEPT !.mem = "open", !.frame_index = 0]
    /\ UNCHANGED <<call, ret, err, pre, ppc, perr, passed, constructed>>

\* Lines 71-79: one test of the loop condition and, if it holds, one frame.
BuildLoop ==
    /\ UNCHANGED xvars
    /\ UNCHANGED tvars
    /\ UNCHANGED ovars
    /\ bpc = "loop"
    /\ IF loc.frame_index < loc.total_num_samples /\ loc.pos < Len(loc.video.frames)
       THEN /\ SetFolder(call.target,
                   [Folder(call.target) EXCEPT
                       !.dat = WriteRow(@, loc.frame_index,
                                        BGR2GRAY(loc.video.frames[loc.pos + 1]))])
            /\ loc' = [loc EXCEPT !.frame_index = @ + 1, !.pos = @ + 1]
            /\ bpc' = bpc
       ELSE /\ bpc' = StepAfter("loop")
            /\ UNCHANGED <<cache, tmp, loc>>
    /\ UNCHANGED <<call, ret, err, pre, ppc, perr, passed, constructed>>

\* Lines 82-83.
BuildFlush ==
    /\ UNCHANGED xvars
    /\ UNCHANGED tvars
    /\ UNCHANGED ovars
    /\ bpc = "flush"
    /\ bpc' = StepAfter("flush")
    /\ loc' = [loc EXCEPT !.mem = "flushed", !.released = TRUE]
    /\ UNCHANGED <<cache, tmp, call, ret, err, pre, ppc, perr, passed, constructed>>

\* Lines 86-93: the record is put together and meta.json is opened for writing.
BuildOpenMeta ==
    /\ UNCHANGED xvars
    /\ UNCHANGED tvars
    /\ UNCHANGED ovars
    /\ bpc = "meta"
    /\ bpc' = StepAfter("meta")
    /\ SetFolder(call.target, OpenForWriting(Folder(call.target)))
    /\ UNCHANGED <<call, loc, ret, err, pre, ppc, perr, passed, constructed>>

\* Line 94: json.dump writes the record and the file is closed.
BuildWriteMeta ==
    /\ UNCHANGED xvars
    /\ UNCHANGED tvars
    /\ UNCHANGED ovars
    /\ bpc = "dump"
    /\ bpc' = StepAfter("dump")
    /\ SetFolder(call.target,
                 [Folder(call.target) EXCEPT
                     !.hasMeta = TRUE,
                     !.meta = MetaRecord(loc.frame_index, loc.total_num_samples,
                                         loc.video.shape[1], loc.video.shape[2],
                                         loc.video.dtype, loc.video.fps)])
    /\ loc' = [loc EXCEPT !.metaWritten = TRUE]
    /\ UNCHANGED <<call, ret, err, pre, ppc, perr, passed, constructed>>

\* Lines 96-108.
BuildReturn ==
    /\ UNCHANGED xvars
    /\ UNCHANGED tvars
    /\ UNCHANGED ovars
    /\ bpc = "stat"
    /\ bpc' = "returned"
    /\ ret' = BuildReturnValue(call.target)
    /\ UNCHANGED <<cache, tmp, call, loc, err, pre, ppc, perr, passed, constructed>>

\* The call is over: its frame, its result and its temporary directory's name
\* are dropped by a direct caller.
BuildExit ==
    /\ UNCHANGED xvars
    /\ UNCHANGED tvars
    /\ UNCHANGED ovars
    /\ bpc \in {"returned", "raised"}
    /\ call.caller = "direct"
    /\ bpc' = "idle"
    /\ call' = NoCall
    /\ loc' = NoLocals
    /\ ret' = "unset"
    /\ err' = "none"
    /\ tmp' = EmptyFolder
    /\ pre' = EmptyFolder
    /\ UNCHANGED <<cache, ppc, perr, passed, constructed>>

(***************************************************************************)
(* convert_raw_session                                                     *)
(***************************************************************************)
InterfaceOrder == <<"ImagingBlue", "ImagingViolet">>

\* validate_cache(cache_folder_path): both files are present, meta.json holds
\* a record and frames.dat holds at least the rows meta.json records.
ValidCache(folder) ==
    /\ folder.hasDat
    /\ MetaParsable(folder)
    /\ Len(folder.dat) >=
          folder.meta.total_num_samples * folder.meta.height * folder.meta.width

\* Where convert_raw_session goes after a call: an exception leaves the function.
AfterStep_SwallowsException(raised, next) == next

AfterStep(raised, next) == IF raised THEN "failed" ELSE next

\* Line 123: build_frame_cache(folder_path, cache_folder_path=cache_dir_path,
\* overwrite=force_cache).
SessionStart ==
    /\ UNCHANGED xvars
    /\ UNCHANGED tvars
    /\ UNCHANGED ovars
    /\ bpc = "idle"
    /\ ppc = "idle"
    /\ \E folder_path \in SourceFolders, force_cache \in BOOLEAN :
          BuildEnter(folder_path, "cache", force_cache, "session")
    /\ ppc' = "build"
    /\ perr' = "none"
    /\ passed' = {}
    /\ constructed' = {}

\* Line 123 returns or raises.
SessionBuilt ==
    /\ UNCHANGED xvars
    /\ UNCHANGED tvars
    /\ UNCHANGED ovars
    /\ ppc = "build"
    /\ bpc \in {"returned", "raised"}
    /\ ppc' = AfterStep(bpc = "raised", "validate")
    /\ perr' = IF bpc = "raised" THEN "build" ELSE perr
    /\ passed' = IF bpc = "raised" THEN passed ELSE passed \cup {"build"}
    /\ UNCHANGED <<cache, tmp, bpc, call, loc, ret, err, pre, constructed>>

\* Line 124: validate_cache(cache_folder_path=cache_dir_path).
SessionValidate ==
    /\ UNCHANGED xvars
    /\ UNCHANGED tvars
    /\ UNCHANGED ovars
    /\ ppc = "validate"
    /\ ppc' = AfterStep(~ValidCache(cache), "construct")
    /\ perr' = IF ValidCache(cache) THEN perr ELSE "validate"
    /\ passed' = IF ValidCache(cache) THEN passed \cup {"validate"} ELSE passed
    /\ UNCHANGED <<cache, tmp, bpc, call, loc, ret, err, pre, constructed>>

\* Line 184: the converter constructs the interfaces of source_data in order.
\* WidefieldImagingInterface.__init__ needs frames.dat, then one .htsv and one
\* .camlog file, and the extractor a meta.json it can load and a camera log
\* it accepts.
SessionConstruct ==
    /\ UNCHANGED xvars
    /\ UNCHANGED tvars
    /\ UNCHANGED ovars
    /\ ppc = "construct"
    /\ \E inputs_ok \in BOOLEAN :
          LET name == InterfaceOrder[Cardinality(constructed) + 1]
              ok   == cache.hasDat /\ MetaParsable(cache) /\ inputs_ok
          IN  /\ constructed' = IF ok THEN constructed \cup {name} ELSE constructed
              /\ ppc' = AfterStep(~ok,
                           IF Cardinality(constructed) + 1 = Len(InterfaceOrder)
                           THEN "align" ELSE "construct")
              /\ perr' = IF ok THEN perr ELSE "construct"
              /\ passed' = IF ok /\ Cardinality(constructed) + 1 = Len(InterfaceOrder)
                           THEN passed \cup {"construct"} ELSE passed
    /\ UNCHANGED <<cache, tmp, bpc, call, loc, ret, err, pre>>

\* Lines 190-235: the aligned times are set and the metadata is put together.
SessionAlign ==
    /\ UNCHANGED xvars
    /\ UNCHANGED tvars
    /\ UNCHANGED ovars
    /\ ppc = "align"
    /\ \E inputs_ok \in BOOLEAN :
          /\ ppc' = AfterStep(~inputs_ok, "run")
          /\ perr' = IF inputs_ok THEN perr ELSE "align"
          /\ passed' = IF inputs_ok THEN passed \cup {"align"} ELSE passed
    /\ UNCHANGED <<cache, tmp, bpc, call, loc, ret, err, pre, constructed>>

\* Lines 244-260: run_conversion reads the frames through the extractors.  An
\* exception raised in it (get_series on a frame index the cache does not
\* hold, a file that cannot be written) leaves convert_raw_session.
SessionRun ==
    /\ UNCHANGED xvars
    /\ UNCHANGED tvars
    /\ UNCHANGED ovars
    /\ ppc = "run"
    /\ \E inputs_ok \in BOOLEAN :
          /\ ppc' = AfterStep(~inputs_ok, "done")
          /\ perr' = IF inputs_ok THEN perr ELSE "run"
          /\ passed' = IF inputs_ok THEN passed \cup {"run"} ELSE passed
    /\ UNCHANGED <<cache, tmp, bpc, call, loc, ret, err, pre, constructed>>

\* convert_raw_session is over.
SessionExit ==
    /\ UNCHANGED xvars
    /\ UNCHANGED tvars
    /\ UNCHANGED ovars
    /\ ppc \in {"done", "failed"}
    /\ ppc' = "idle"
    /\ perr' = "none"
    /\ passed' = {}
    /\ constructed' = {}
    /\ bpc' = "idle"
    /\ call' = NoCall
    /\ loc' = NoLocals
    /\ ret' = "unset"
    /\ err' = "none"
    /\ tmp' = EmptyFolder
    /\ pre' = EmptyFolder
    /\ UNCHANGED cache

\* The process is killed while the build runs: after frames.dat was cut to 0
\* bytes, between two frames, before or after the flush, or after meta.json
\* was opened for writing.  The frames already stored in the shared mapping
\* stay in the file.
Interrupt ==
    /\ UNCHANGED xvars
    /\ UNCHANGED tvars
    /\ UNCHANGED ovars
    /\ bpc \in {"extend", "loop", "flush", "meta", "dump"}
    /\ bpc' = "idle"
    /\ call' = NoCall
    /\ loc' = NoLocals
    /\ ret' = "unset"
    /\ err' = "none"
    /\ tmp' = EmptyFolder
    /\ pre' = EmptyFolder
    /\ ppc' = "idle"
    /\ perr' = "none"
    /\ passed' = {}
    /\ constructed' = {}
    /\ UNCHANGED cache
(***************************************************************************)
(* WidefieldImagingExtractor                                               *)
(***************************************************************************)
\* The frames a build stores, one row after the other (lines 70-79).
RECURSIVE StoreFrames(_, _, _)
StoreFrames(dat, v, frame_index) ==
    IF frame_index < v.count /\ frame_index < Len(v.frames)
    THEN StoreFrames(WriteRow(dat, frame_index, BGR2GRAY(v.frames[frame_index + 1])),
                     v, frame_index + 1)
    ELSE dat

RECURSIVE FramesStored(_, _)
FramesStored(v, frame_index) ==
    IF frame_index < v.count /\ frame_index < Len(v.frames)
    THEN FramesStored(v, frame_index + 1)
    ELSE frame_index

\* The folder build_frame_cache leaves when it builds video v in an empty folder.
BuiltFolder(v) ==
    LET a == Allocate(EmptyFolder, v.count, v.shape[1], v.shape[2])
    IN  [a EXCEPT !.dat = StoreFrames(a.dat, v, 0),
                  !.hasMeta = TRUE,
                  !.meta = MetaRecord(FramesStored(v, 0), v.count, v.shape[1],
                                      v.shape[2], v.dtype, v.fps)]

\* The videos the extractor's caches are built from: one that delivers all it
\* reports and one that delivers less, with frames of different grey values.
ReaderVideos ==
    {[count |-> 3, frames |-> <<(<<(<<0, 0, 255>>)>>), (<<(<<255, 255, 255>>)>>),
                                (<<(<<255, 0, 0>>)>>)>>,
      shape |-> FrameShape, dtype |-> "uint8", fps |-> 60],
     [count |-> 3, frames |-> <<(<<(<<0, 0, 255>>)>>), (<<(<<255, 255, 255>>)>>)>>,
      shape |-> FrameShape, dtype |-> "uint8", fps |-> 25]}

\* A line of the camera log.  kind "led" is a line of the exact form
\* '#LED:<channel_id>,<frame_id>,<timestamp>'; "led_tail" is such a line
\* followed by more text ('#LED:3,2,20 dropped'); "led_dots" is '#LED:2,1,1.2.3',
\* whose last field is made of digits and dots but is no number; "other" is any
\* line that does not start with '#LED' or that the pattern does not match.
LedLines ==
    {[kind |-> "led", channel_id |-> 2, frame_id |-> f, timestamp |-> 10 * f] :
        f \in 0..2}
    \cup {[kind |-> "led", channel_id |-> 3, frame_id |-> f, timestamp |-> 10 * f] :
             f \in 1..3}
    \cup {[kind |-> "led", channel_id |-> 4, frame_id |-> 1, timestamp |-> 10]}

OtherLine == [kind |-> "other", channel_id |-> 0, frame_id |-> 0, timestamp |-> 0]

TailLine == [kind |-> "led_tail", channel_id |-> 3, frame_id |-> 2, timestamp |-> 20]

DotsLine == [kind |-> "led_dots", channel_id |-> 2, frame_id |-> 1, timestamp |-> 0]

LogLines == LedLines \cup {OtherLine, TailLine, DotsLine}

CameraLogs == UNION {[1..n -> LogLines] : n \in 0..MaxLog}

\* The rows of the light source properties table (.htsv).
LightSourceProperties ==
    <<[LED |-> 2, wavelength |-> 470, color |-> "Blue"],
      [LED |-> 3, wavelength |-> 405, color |-> "Violet"]>>

\* excitation_wavelength_nm as passed to the constructor; 0 stands for None
\* (both are replaced by 470 by 'excitation_wavelength_nm or 470').
WavelengthArgs == {0, 470, 405, 500}

\* An optional integer argument: <<>> is None, <<i>> is the integer i.
None == <<>>

\* start_sample and end_sample as passed to get_series.
StartArgs == {None} \cup {<<i>> : i \in -1..(MaxLog - 1)}

EndArgs == {None} \cup {<<i>> : i \in -1..MaxLog}

\* Line 118: re.match anchors the pattern at the start of the line only, and
\* [\d\.]+ takes any run of digits and dots.
Matches(line) == line.kind \in {"led", "led_tail", "led_dots"}

\* Line 125: float(gd["timestamp"]) raises ValueError on a run that is no number.
FloatRaises(line) == line.kind = "led_dots"

\* Lines 113-127 raise when a matched line has such a timestamp.
ParseRaises(lines) ==
    \E i \in DOMAIN lines : Matches(lines[i]) /\ FloatRaises(lines[i])

\* Lines 113-127: the lines that match the '#LED:' pattern, as typed records.
RECURSIVE MatchingEntries(_)
MatchingEntries(lines) ==
    IF lines = <<>> THEN <<>>
    ELSE LET line == Head(lines)
         IN  (IF Matches(line) /\ ~FloatRaises(line)
              THEN <<[channel_id |-> line.channel_id, frame_id |-> line.frame_id,
                      timestamp |-> line.timestamp]>>
              ELSE <<>>) \o MatchingEntries(Tail(lines))

\* Python's seq[start:end] for integer start and end.
SliceBound(i, n) == IF i < 0 THEN (IF i + n < 0 THEN 0 ELSE i + n)
                    ELSE (IF i > n THEN n ELSE i)

PySlice(seq, start, end) ==
    SubSeq(seq, SliceBound(start, Len(seq)) + 1, SliceBound(end, Len(seq)))

\* Lines 129-135: camera_log_data[:total].
GetCameraLogMetadata_NoTruncation(lines, total) == MatchingEntries(lines)

GetCameraLogMetadata(lines, total) == PySlice(MatchingEntries(lines), 0, total)

\* Lines 142-147: the rows whose wavelength is the excitation wavelength.
RECURSIVE RowsWithWavelength(_, _)
RowsWithWavelength(rows, wavelength) ==
    IF rows = <<>> THEN <<>>
    ELSE (IF Head(rows).wavelength = wavelength THEN <<Head(rows)>> ELSE <<>>)
         \o RowsWithWavelength(Tail(rows), wavelength)

\* Line 77: np.unique(channel_id).
UniqueChannels(entries) == {entries[i].channel_id : i \in DOMAIN entries}

\* Lines 81-83: the entries of one channel, in the order of the log.
RECURSIVE FilterChannel(_, _)
FilterChannel_KeepsAll(entries, channel_id) == entries

FilterChannel(entries, channel_id) ==
    IF entries = <<>> THEN <<>>
    ELSE (IF Head(entries).channel_id = channel_id THEN <<Head(entries)>> ELSE <<>>)
         \o FilterChannel(Tail(entries), channel_id)

\* Line 84: frame_id - 1, the zero-based row of the frame.
FrameIndices_OneBased(entries) == [i \in DOMAIN entries |-> entries[i].frame_id]

FrameIndices(entries) == [i \in DOMAIN entries |-> entries[i].frame_id - 1]

\* Line 78: self._num_channels != 2.
WrongChannelCount_OnlyNone(num_channels) == num_channels = 0

WrongChannelCount(num_channels) == num_channels # 2

NoExtractor ==
    [state |-> "none", error |-> "none", excitation_wavelength_nm |-> 0,
     total_num_samples |-> 0, image_shape |-> <<0, 0>>, sampling_frequency |-> 0,
     num_channels |-> 0, channel_id |-> 0, frame_indices |-> <<>>,
     timestamps |-> <<>>, read |-> <<>>]

NoSeries == [status |-> "none", start_sample |-> None, end_sample |-> None,
             frames |-> <<>>, error |-> "none"]

Failed(e, error) == [e EXCEPT !.state = "raised", !.error = error]

\* WidefieldImagingExtractor.__init__ (lines 51-87) on cache folder `folder`;
\* `read` lists the files the constructor has read, in order.
NewExtractor(folder, lines, excitation_wavelength_nm) ==
    LET wavelength == IF excitation_wavelength_nm = 0 THEN 470
                      ELSE excitation_wavelength_nm
        e0 == [NoExtractor EXCEPT !.excitation_wavelength_nm = wavelength]
    IN  IF ~folder.hasMeta THEN Failed(e0, "FileNotFoundError")
        ELSE IF ~MetaParsable(folder)
        THEN Failed([e0 EXCEPT !.read = <<"meta.json">>], "JSONDecodeError")
        ELSE
        LET m  == [e0 EXCEPT !.total_num_samples = folder.meta.total_num_samples,
                             !.image_shape = <<folder.meta.height, folder.meta.width>>,
                             !.sampling_frequency = folder.meta.fps,
                             !.read = <<"meta.json">>]
            c  == [m EXCEPT !.read = @ \o <<"camlog">>]
            e1 == [c EXCEPT !.read = @ \o <<"htsv">>]
            log == GetCameraLogMetadata(lines, e1.total_num_samples)
            properties == RowsWithWavelength(LightSourceProperties, wavelength)
        IN  IF ParseRaises(lines)
            THEN Failed(c, "ValueError: could not convert string to float")
            ELSE IF properties = <<>> THEN Failed(e1, "IndexError")
            ELSE IF WrongChannelCount(Cardinality(UniqueChannels(log)))
            THEN Failed([e1 EXCEPT !.num_channels = Cardinality(UniqueChannels(log))],
                        "ValueError")
            ELSE LET selected == FilterChannel(log, properties[1].LED)
                 IN  [e1 EXCEPT !.state = "ok",
                                !.num_channels = Cardinality(UniqueChannels(log)),
                                !.channel_id = properties[1].LED,
                                !.frame_indices = FrameIndices(selected),
                                !.timestamps = [i \in DOMAIN selected |->
                                                   selected[i].timestamp]]

\* Lines 159-163.
get_num_samples(e) == Len(e.frame_indices)

\* Lines 165-172: raw_fps / self._num_channels, a float division; the quotient
\* is kept as the fraction num / den.
get_sampling_frequency_Floored(e) ==
    [num |-> e.sampling_frequency \div e.num_channels, den |-> 1]

get_sampling_frequency(e) == [num |-> e.sampling_frequency, den |-> e.num_channels]

\* Lines 201-217: None when the channel has no log entry, else
\* timestamps[start_sample:end_sample].
get_native_timestamps(e, start_sample, end_sample) ==
    IF Len(e.timestamps) = 0
    THEN [none |-> TRUE, timestamps |-> <<>>]
    ELSE [none |-> FALSE,
          timestamps |->
             PySlice(e.timestamps,
                     IF start_sample = <<>> THEN 0 ELSE start_sample[1],
                     IF end_sample = <<>> THEN Len(e.frame_indices)
                     ELSE end_sample[1])]

\* np.memmap(path, mode, shape=(n, height, width)) as it leaves the file: "w+"
\* creates or overwrites it, "r" leaves it as it is.
MemmapOpen(folder, mode, n, height, width) ==
    IF mode = "w+" THEN Allocate(folder, n, height, width) ELSE folder

\* Line 103: the folder after _load_frame_cache has opened frames.dat.
LoadFrameCache_WritePlus(folder, e) ==
    MemmapOpen(folder, "w+", e.total_num_samples, e.image_shape[1], e.image_shape[2])

LoadFrameCache(folder, e) ==
    MemmapOpen(folder, "r", e.total_num_samples, e.image_shape[1], e.image_shape[2])

\* Lines 89-104: the read-only view of frames.dat with the shape of meta.json.
FrameCacheView(folder, e) ==
    SubSeq(LoadFrameCache(folder, e).dat, 1,
           e.total_num_samples * e.image_shape[1] * e.image_shape[2])

\* Line 192: len(frame_indices) == 0.
NoFramesSelected_Never(frame_indices) == FALSE

NoFramesSelected(frame_indices) == Len(frame_indices) = 0

\* Row idx of a view of `total` rows, by numpy's rule for a negative index.
ViewRow(view, idx, total, sz) ==
    SubSeq(view, (IF idx < 0 THEN idx + total ELSE idx) * sz + 1,
                 (IF idx < 0 THEN idx + total ELSE idx) * sz + sz)

\* Line 190: self._frame_indices[start_sample:end_sample].
SelectedIndices_Inclusive(indices, start, end) == PySlice(indices, start, end + 1)

SelectedIndices(indices, start, end) == PySlice(indices, start, end)

\* get_series (lines 188-199).
SeriesOf(folder, e, start_sample, end_sample) ==
    LET start == IF start_sample = None THEN 0 ELSE start_sample[1]
        end   == IF end_sample = None THEN Len(e.frame_indices) ELSE end_sample[1]
        frame_indices == SelectedIndices(e.frame_indices, start, end)
        total == e.total_num_samples
        sz    == e.image_shape[1] * e.image_shape[2]
        r0    == [NoSeries EXCEPT !.start_sample = start_sample,
                                  !.end_sample = end_sample]
    IN  IF NoFramesSelected(frame_indices)
        THEN [r0 EXCEPT !.status = "raised", !.error = "ValueError: No frames selected"]
        ELSE IF ~folder.hasDat
        THEN [r0 EXCEPT !.status = "raised", !.error = "FileNotFoundError"]
        ELSE IF Len(folder.dat) < total * sz
        THEN [r0 EXCEPT !.status = "raised", !.error = "ValueError: mmap length"]
        ELSE IF \E i \in DOMAIN frame_indices :
                   frame_indices[i] < -total \/ frame_indices[i] >= total
        THEN [r0 EXCEPT !.status = "raised", !.error = "IndexError"]
        ELSE [r0 EXCEPT !.status = "ok",
                        !.frames = [i \in DOMAIN frame_indices |->
                                       ViewRow(FrameCacheView(folder, e),
                                               frame_indices[i], total, sz)]]

\* WidefieldImagingExtractor(folder_path, htsv_file_path, camlog_file_path,
\* excitation_wavelength_nm): the extractor `ex` is created.  Other extractors
\* (rd) may be alive on the same cache folder.
Construct ==
    /\ ex.state = "none"
    /\ \E excitation_wavelength_nm \in WavelengthArgs :
          ex' = NewExtractor(cache, camlog, excitation_wavelength_nm)
    /\ UNCHANGED <<cache, camlog, series>>
    /\ UNCHANGED bvars
    /\ UNCHANGED tvars
    /\ UNCHANGED ovars

\* The folder after get_series: _load_frame_cache is reached when the
\* selection is not empty and frames.dat exists.
AfterSeries(folder, e, result) ==
    IF result.error = "ValueError: No frames selected" \/ ~folder.hasDat
    THEN folder
    ELSE LoadFrameCache(folder, e)

\* extractor.get_series(start_sample, end_sample).
GetSeries ==
    /\ ex.state = "ok"
    /\ series = NoSeries
    /\ \E start_sample \in StartArgs, end_sample \in EndArgs :
          /\ series' = SeriesOf(cache, ex, start_sample, end_sample)
          /\ cache' = AfterSeries(cache, ex, series')
    /\ UNCHANGED <<camlog, ex>>
    /\ UNCHANGED bvars
    /\ UNCHANGED tvars
    /\ UNCHANGED ovars

\* The caller drops the array get_series returned (or handles its exception).
DropSeries ==
    /\ series # NoSeries
    /\ series' = NoSeries
    /\ UNCHANGED <<cache, camlog, ex>>
    /\ UNCHANGED bvars
    /\ UNCHANGED tvars
    /\ UNCHANGED ovars

\* The extractor `ex` goes out of use; another one can take its place.
Release ==
    /\ ex.state # "none"
    /\ series = NoSeries
    /\ ex' = NoExtractor
    /\ UNCHANGED <<cache, camlog, series>>
    /\ UNCHANGED bvars
    /\ UNCHANGED tvars
    /\ UNCHANGED ovars

(***************************************************************************)
(* Several extractors on one cache folder                                  *)
(***************************************************************************)
\* The extractors that are alive next to `ex` (the converter holds the
\* functional and the isosbestic one at the same time).
Others == 2..MaxReaders

\* The wavelengths and the ranges the other extractors are used with.
OtherWavelengths == {470, 405}

OtherStartArgs == {None, <<1>>}

OtherEndArgs == {None, <<1>>}

NoReader == [ex |-> NoExtractor, series |-> NoSeries]

NoReaders == [r \in Others |-> NoReader]

\* WidefieldImagingExtractor(...) for another extractor on the same folder,
\* camera log and properties table.
OtherConstruct ==
    /\ \E r \in Others, excitation_wavelength_nm \in OtherWavelengths :
          /\ rd[r].ex.state = "none"
          /\ rd' = [rd EXCEPT ![r].ex =
                                 NewExtractor(cache, camlog, excitation_wavelength_nm)]
    /\ UNCHANGED <<cache, bvars, xvars, tvars, cv, nq, dl>>

\* get_series of another extractor, at any moment between the calls of the
\* others (lines 188-199).
OtherGetSeries ==
    /\ \E r \in Others, start_sample \in OtherStartArgs, end_sample \in OtherEndArgs :
          /\ rd[r].ex.state = "ok"
          /\ rd[r].series = NoSeries
          /\ rd' = [rd EXCEPT ![r].series =
                                 SeriesOf(cache, rd[r].ex, start_sample, end_sample)]
          /\ cache' = AfterSeries(cache, rd[r].ex, rd'[r].series)
    /\ UNCHANGED <<bvars, xvars, tvars, cv, nq, dl>>

\* The caller of another extractor drops the array it got.
OtherDropSeries ==
    /\ \E r \in Others :
          /\ rd[r].series # NoSeries
          /\ rd' = [rd EXCEPT ![r].series = NoSeries]
    /\ UNCHANGED <<cache, bvars, xvars, tvars, cv, nq, dl>>

\* Another extractor goes out of use.
OtherRelease ==
    /\ \E r \in Others :
          /\ rd[r].ex.state # "none"
          /\ rd[r].series = NoSeries
          /\ rd' = [rd EXCEPT ![r] = NoReader]
    /\ UNCHANGED <<cache, bvars, xvars, tvars, cv, nq, dl>>

(***************************************************************************)
(* Aligned times of one excitation wavelength (utils/_widefield_times.py)  *)
(***************************************************************************)
\* The rows of imagingLightSource.properties.htsv: the documented table, the
\* same in another order, one with two rows of a wavelength, and an empty one.
PropertiesTables ==
    {<<[channel_id |-> 2, wavelength |-> 470], [channel_id |-> 3, wavelength |-> 405]>>,
     <<[channel_id |-> 0, wavelength |-> 405], [channel_id |-> 1, wavelength |-> 470]>>,
     <<[channel_id |-> 1, wavelength |-> 470], [channel_id |-> 3, wavelength |-> 405],
       [channel_id |-> 2, wavelength |-> 470]>>,
     <<>>}

\* excitation_wavelength_nm as passed to the two functions.
TimesWavelengths == {470, 405, 500}

\* imaging.times.npy: n aligned times, increasing or not, and the array of ten.
AlignedTimes ==
    {[i \in 1..n |-> 10 * i] : n \in 0..MaxTimes}
    \cup {[i \in 1..n |-> 10 * (n + 1 - i)] : n \in 2..MaxTimes}
    \cup {[i \in 1..10 |-> 10 * i]}

\* imaging.imagingLightSource.npy: the channel id of every frame.
LightSources ==
    UNION {[1..n -> 0..3] : n \in 0..MaxTimes}
    \cup {[i \in 1..10 |-> (i - 1) % 2]}

\* Line 26: the channel_id of the rows whose wavelength is the requested one,
\* in the order of the table.
RECURSIVE ChannelIdsFor(_, _)
ChannelIdsFor_AllRows(light_sources, excitation_wavelength_nm) ==
    [i \in DOMAIN light_sources |-> light_sources[i].channel_id]

ChannelIdsFor(light_sources, excitation_wavelength_nm) ==
    IF light_sources = <<>> THEN <<>>
    ELSE (IF Head(light_sources).wavelength = excitation_wavelength_nm
          THEN <<Head(light_sources).channel_id>> ELSE <<>>)
         \o ChannelIdsFor(Tail(light_sources), excitation_wavelength_nm)

\* _get_channel_id_from_wavelength (lines 25-29); channel_id 0 with raised
\* TRUE stands for no value.
get_channel_id_from_wavelength(excitation_wavelength_nm, light_sources) ==
    LET channel_ids == ChannelIdsFor(light_sources, excitation_wavelength_nm)
    IN  IF Len(channel_ids) = 0
        THEN [raised |-> TRUE, error |-> "ValueError: No channel ID found",
              channel_id |-> 0]
        ELSE [raised |-> FALSE, error |-> "none", channel_id |-> channel_ids[1]]

\* Line 66: light_sources == channel_id, element by element.
ChannelMask_Complement(light_sources, channel_id) ==
    [i \in DOMAIN light_sources |-> light_sources[i] # channel_id]

ChannelMask(light_sources, channel_id) ==
    [i \in DOMAIN light_sources |-> light_sources[i] = channel_id]

\* values[mask] for a boolean mask of the length of values.
RECURSIVE BooleanIndex(_, _)
BooleanIndex(values, mask) ==
    IF values = <<>> THEN <<>>
    ELSE (IF Head(mask) THEN <<Head(values)>> ELSE <<>>)
         \o BooleanIndex(Tail(values), Tail(mask))

\* Line 66: all_times[light_sources == channel_id]; numpy raises IndexError
\* when the mask and the array differ in length.
TimesPerChannelId(all_times, light_sources, channel_id) ==
    IF Len(all_times) # Len(light_sources)
    THEN [raised |-> TRUE, error |-> "IndexError", times |-> <<>>]
    ELSE [raised |-> FALSE, error |-> "none",
          times |-> BooleanIndex(all_times, ChannelMask(light_sources, channel_id))]

NoAligner ==
    [pc |-> "none", excitation_wavelength_nm |-> 0, table |-> <<>>,
     all_times |-> <<>>, light_sources |-> <<>>, channel_id |-> 0,
     times |-> <<>>, error |-> "none"]

\* Lines 58-61 of _get_imaging_times_by_excitation_wavelength_nm.
ResolveChannel ==
    /\ al.pc = "called"
    /\ LET r == get_channel_id_from_wavelength(al.excitation_wavelength_nm, al.table)
       IN  al' = [al EXCEPT !.pc = IF r.raised THEN "raised" ELSE "resolved",
                            !.error = r.error,
                            !.channel_id = r.channel_id]
    /\ UNCHANGED <<cache, bvars, xvars>>
    /\ UNCHANGED ovars

\* Lines 63-67 of _get_imaging_times_by_excitation_wavelength_nm.
SelectTimes ==
    /\ al.pc = "resolved"
    /\ LET r == TimesPerChannelId(al.all_times, al.light_sources, al.channel_id)
       IN  al' = [al EXCEPT !.pc = IF r.raised THEN "raised" ELSE "returned",
                            !.error = r.error,
                            !.times = r.times]
    /\ UNCHANGED <<cache, bvars, xvars>>
    /\ UNCHANGED ovars

(***************************************************************************)
(* NIDQ metadata from the wiring (utils/_nidq_wiring.py)                   *)
(***************************************************************************)
\* The keys of DIGITAL_DEVICE_LABELS that occur in the wirings below.
DIGITAL_DEVICE_LABELS == {"left_camera", "frame2ttl"}

\* A key of the wiring: 'AI0' is prefix "AI" and rest 0, 'P0.1' is prefix "P0."
\* and rest 1; 'DI0' and 'P1.0' are keys the functions pass over.
AnalogInputs == {[prefix |-> "AI", rest |-> 0], [prefix |-> "AI", rest |-> 1],
                 [prefix |-> "DI", rest |-> 0]}

DigitalPins == {[prefix |-> "P0.", rest |-> 0], [prefix |-> "P0.", rest |-> 1],
                [prefix |-> "P1.", rest |-> 0]}

AnalogDevices == {"bpod", "laser"}

DigitalDevices == {"left_camera", "custom_device"}

\* SYNC_WIRING_ANALOG and SYNC_WIRING_DIGITAL: dictionaries from keys to
\* device names.
Wirings ==
    [SYNC_WIRING_ANALOG : UNION {[K -> AnalogDevices] : K \in SUBSET AnalogInputs},
     SYNC_WIRING_DIGITAL : UNION {[K -> DigitalDevices] : K \in SUBSET DigitalPins}]

\* The metadata of a device.
DeviceEntry(device_name) == [name |-> device_name]

\* The dictionary {device: ...} of a set of devices.
DeviceTable(devices) == [d \in devices |-> DeviceEntry(d)]

\* device_metadata of the documented structure (lines 112-116): the devices
\* are under TimeSeries[metadata_key] and Events[metadata_key].
DocumentedMetadata(analog, digital, metadata_key) ==
    [TimeSeries |-> [k \in {metadata_key} |-> DeviceTable(analog)],
     Events |-> [k \in {metadata_key} |-> DeviceTable(digital)]]

\* Lines 42-51: the devices wired to an 'AI<n>' input.
get_analog_channel_groups_from_wiring(wiring) ==
    {wiring.SYNC_WIRING_ANALOG[k] :
        k \in {a \in DOMAIN wiring.SYNC_WIRING_ANALOG : a.prefix = "AI"}}

\* Lines 70-91: the devices wired to a 'P0.<n>' pin that have labels.
get_digital_channel_groups_from_wiring(wiring) ==
    {d \in {wiring.SYNC_WIRING_DIGITAL[k] :
               k \in {a \in DOMAIN wiring.SYNC_WIRING_DIGITAL : a.prefix = "P0."}} :
        d \in DIGITAL_DEVICE_LABELS}

\* Lines 133-137 and 140-144: the entries of signals_metadata for the devices
\* of the channel groups that are keys of signals_metadata.
MapSignals(channel_groups, signals_metadata) ==
    [device_name \in {d \in channel_groups : d \in DOMAIN signals_metadata} |->
        signals_metadata[device_name]]

\* device_metadata with the devices directly under TimeSeries and Events.
FlatMetadata(analog, digital) ==
    [TimeSeries |-> DeviceTable(analog), Events |-> DeviceTable(digital)]

NoNidq ==
    [pc |-> "none", wiring |-> [SYNC_WIRING_ANALOG |-> <<>>, SYNC_WIRING_DIGITAL |-> <<>>],
     structure |-> "documented", analog |-> {}, digital |-> {},
     metadata_key |-> "SpikeGLXNIDQ", TimeSeries |-> <<>>, Events |-> <<>>]

\* The device_metadata argument of the call.
DeviceMetadataOf(q) ==
    IF q.structure = "documented"
    THEN DocumentedMetadata(q.analog, q.digital, q.metadata_key)
    ELSE FlatMetadata(q.analog, q.digital)

\* Lines 130-137 of _build_nidq_metadata_from_wiring.
MapAnalog ==
    /\ nq.pc = "called"
    /\ nq' = [nq EXCEPT !.pc = "analog",
                        !.TimeSeries =
                           MapSignals(get_analog_channel_groups_from_wiring(nq.wiring),
                                      DeviceMetadataOf(nq).TimeSeries)]
    /\ UNCHANGED <<cache, bvars, xvars, tvars, cv, dl, rd>>

\* Lines 139-146 of _build_nidq_metadata_from_wiring.
MapDigital ==
    /\ nq.pc = "analog"
    /\ nq' = [nq EXCEPT !.pc = "returned",
                        !.Events =
                           MapSignals(get_digital_channel_groups_from_wiring(nq.wiring),
                                      DeviceMetadataOf(nq).Events)]
    /\ UNCHANGED <<cache, bvars, xvars, tvars, cv, dl, rd>>

(***************************************************************************)
(* download_widefield_session (conversion/download.py)                     *)
(***************************************************************************)
\* The datasets the interfaces of a mode require, and a file of the user's.
RawFiles == {"raw_widefield_data/imaging.frames.mov",
             "raw_ephys_data/_spikeglx_ephysData_g0_t0.nidq.cbin"}

ProcessedFiles == {"alf/widefield/widefieldSVT.uncorrected.npy",
                   "alf/widefield/widefieldLandmarks.dorsalCortex.json"}

LocalFiles == RawFiles \cup ProcessedFiles \cup {"notes.txt"}

DownloadModes == {"raw", "processed", "both"}

NoDownload ==
    [pc |-> "none", one |-> "None", mode |-> "raw", redownload_data |-> FALSE,
     cache_dir |-> {}, before |-> {}, files |-> {}, error |-> "none"]

\* Lines 43-46: shutil.rmtree and mkdir leave an empty directory.
ClearedCache(cache_dir, redownload_data) ==
    IF redownload_data /\ Cardinality(cache_dir) > 0 THEN {} ELSE cache_dir

\* Lines 38-39.
DownloadCheckOne ==
    /\ dl.pc = "called"
    /\ dl' = IF dl.one = "None"
             THEN [dl EXCEPT !.pc = "raised", !.error = "ValueError"]
             ELSE [dl EXCEPT !.pc = "clear"]
    /\ UNCHANGED <<cache, bvars, xvars, tvars, cv, nq, rd>>

\* Lines 41-46.
DownloadClear ==
    /\ dl.pc = "clear"
    /\ dl' = [dl EXCEPT !.pc = "match",
                        !.cache_dir = ClearedCache(dl.cache_dir, dl.redownload_data)]
    /\ UNCHANGED <<cache, bvars, xvars, tvars, cv, nq, rd>>

\* Lines 48-69 and 81: the datasets of the mode are downloaded into the cache
\* directory, or the mode is rejected.
DownloadMatch ==
    /\ dl.pc = "match"
    /\ dl' = CASE dl.mode = "raw" ->
                    [dl EXCEPT !.pc = "returned", !.files = RawFiles,
                               !.cache_dir = @ \cup RawFiles]
               [] dl.mode = "processed" ->
                    [dl EXCEPT !.pc = "returned", !.files = ProcessedFiles,
                               !.cache_dir = @ \cup ProcessedFiles]
               [] OTHER ->
                    [dl EXCEPT !.pc = "raised", !.error = "ValueError"]
    /\ UNCHANGED <<cache, bvars, xvars, tvars, cv, nq, rd>>

(***************************************************************************)
(* WidefieldImagingInterface and WidefieldRawNWBConverter                  *)
(***************************************************************************)
\* nwbconverter.py lines 33-34.
FUNCTIONAL_WAVELENGTH_NM == 470

ISOSBESTIC_WAVELENGTH_NM == 405

InterfaceNames == {"ImagingBlue", "ImagingViolet"}

\* The wavelength temporally_align_data_interfaces passes for an interface
\* (lines 54 and 64).
AlignmentWavelength(name, interface) ==
    IF name = "ImagingBlue" THEN FUNCTIONAL_WAVELENGTH_NM ELSE ISOSBESTIC_WAVELENGTH_NM

\* The camera log of n frames of a session, blue and violet in turn.
SessionLog(n) ==
    [i \in 1..n |-> [kind |-> "led", channel_id |-> 2 + ((i - 1) % 2),
                     frame_id |-> i, timestamp |-> 10 * i]]

ConverterLogs == {SessionLog(2), SessionLog(3)}

\* The cache folders an interface is constructed on: built ones, one without
\* frames.dat, one without meta.json, one whose meta.json has 0 bytes and an
\* empty one.
ConverterCaches ==
    {BuiltFolder(v) : v \in ReaderVideos}
    \cup {[BuiltFolder(v) EXCEPT !.hasDat = FALSE, !.dat = <<>>] : v \in ReaderVideos}
    \cup {[BuiltFolder(v) EXCEPT !.hasMeta = FALSE, !.meta = NoMeta] : v \in ReaderVideos}
    \cup {OpenForWriting(BuiltFolder(v)) : v \in ReaderVideos}
    \cup {EmptyFolder}

\* The raw data folder: how many '*.htsv' and '*.camlog' files it holds.
RawFolders == [htsv : 0..2, camlog : 0..2]

\* The processed data folder: imagingLightSource.properties.htsv,
\* imaging.times.npy and imaging.imagingLightSource.npy of n frames.
ProcessedFolder(n) ==
    [table |-> <<[channel_id |-> 2, wavelength |-> 470],
                 [channel_id |-> 3, wavelength |-> 405]>>,
     all_times |-> [i \in 1..n |-> 100 + i],
     light_sources |-> [i \in 1..n |-> 2 + ((i - 1) % 2)]]

ProcessedFolders == {None} \cup {<<ProcessedFolder(n)>> : n \in 2..3}

NoInterface ==
    [state |-> "none", error |-> "none", failed_at |-> "none",
     extractor |-> NoExtractor, times |-> None]

InterfaceFailed(error, failed_at) ==
    [NoInterface EXCEPT !.state = "raised", !.error = error, !.failed_at = failed_at]

\* Lines 67-71: frames.dat is looked for before anything else.
MissingFramesDat_Never(folder) == FALSE

MissingFramesDat(folder) == ~folder.hasDat

\* WidefieldImagingInterface.__init__ (lines 55-98).
NewInterface(folder, raw, lines, excitation_wavelength_nm) ==
    IF MissingFramesDat(folder) THEN InterfaceFailed("FileNotFoundError", "frames.dat")
    ELSE IF raw.htsv = 0 THEN InterfaceFailed("FileNotFoundError", "htsv")
    ELSE IF raw.htsv > 1 THEN InterfaceFailed("ValueError", "htsv")
    ELSE IF raw.camlog = 0 THEN InterfaceFailed("FileNotFoundError", "camlog")
    ELSE IF raw.camlog > 1 THEN InterfaceFailed("ValueError", "camlog")
    ELSE LET e == NewExtractor(folder, lines, excitation_wavelength_nm)
         IN  IF e.state = "raised"
             THEN [InterfaceFailed(e.error, "extractor") EXCEPT !.extractor = e]
             ELSE [NoInterface EXCEPT !.state = "ok", !.extractor = e]

\* imaging_extractor.set_times(times): the times are kept when there is one
\* for every sample and rejected otherwise.
SetTimes_Truncates(e, times) ==
    [raised |-> FALSE, error |-> "none",
     times |-> <<[i \in 1..get_num_samples(e) |->
                     IF i <= Len(times) THEN times[i] ELSE 0]>>]

SetTimes(e, times) ==
    IF Len(times) # get_num_samples(e)
    THEN [raised |-> TRUE, error |-> "AssertionError", times |-> None]
    ELSE [raised |-> FALSE, error |-> "none", times |-> <<times>>]

\* The timestamps an interface writes: the times set on its extractor, or the
\* native ones of the camera log when none were set.
TimestampsOf(interface) ==
    IF interface.times # None THEN interface.times[1]
    ELSE get_native_timestamps(interface.extractor, None, None).timestamps

NoConverter ==
    [pc |-> "none", raw |-> [htsv |-> 0, camlog |-> 0],
     wavelengths |-> [n \in InterfaceNames |-> 0], processed |-> None,
     interfaces |-> [n \in InterfaceNames |-> NoInterface],
     has_paths |-> FALSE, error |-> "none", phase |-> "none", at |-> "none"]

\* The exception leaves the conversion; `phase` and `at` keep the step and the
\* interface it was raised for.
ConverterRaised(c, error, phase, at) ==
    [c EXCEPT !.pc = "raised", !.error = error, !.phase = phase, !.at = at]

\* The caller constructs the interface `name` on the cache folder.
ConstructInterface ==
    /\ cv.pc \in {"construct_blue", "construct_violet"}
    /\ LET name == IF cv.pc = "construct_blue" THEN "ImagingBlue" ELSE "ImagingViolet"
           i == NewInterface(cache, cv.raw, camlog, cv.wavelengths[name])
           c == [cv EXCEPT !.interfaces[name] = i]
       IN  cv' = IF i.state = "raised" THEN ConverterRaised(c, i.error, "construct", name)
                 ELSE [c EXCEPT !.pc = IF cv.pc = "construct_blue"
                                       THEN "construct_violet" ELSE "create"]
    /\ UNCHANGED <<cache, bvars, xvars, tvars, nq, dl, rd>>

\* WidefieldRawNWBConverter.__init__ (lines 36-47): the three file paths are
\* attributes of the converter only when a processed data folder is given.
CreateConverter ==
    /\ cv.pc = "create"
    /\ cv' = [cv EXCEPT !.pc = "align_blue", !.has_paths = (cv.processed # None)]
    /\ UNCHANGED <<cache, bvars, xvars, tvars, nq, dl, rd>>

\* temporally_align_data_interfaces for one interface (lines 51-59, 61-69).
AlignInterface ==
    /\ cv.pc \in {"align_blue", "align_violet"}
    /\ LET name == IF cv.pc = "align_blue" THEN "ImagingBlue" ELSE "ImagingViolet"
           i  == cv.interfaces[name]
       IN  IF ~cv.has_paths
           THEN cv' = ConverterRaised(cv, "AttributeError", "align", name)
           ELSE
           LET p == cv.processed[1]
               ch == get_channel_id_from_wavelength(AlignmentWavelength(name, i), p.table)
               t  == TimesPerChannelId(p.all_times, p.light_sources, ch.channel_id)
               st == SetTimes(i.extractor, t.times)
           IN  cv' = IF ch.raised THEN ConverterRaised(cv, ch.error, "align", name)
                     ELSE IF t.raised THEN ConverterRaised(cv, t.error, "align", name)
                     ELSE IF st.raised THEN ConverterRaised(cv, st.error, "align", name)
                     ELSE [cv EXCEPT !.interfaces[name].times = st.times,
                                     !.pc = IF cv.pc = "align_blue"
                                            THEN "align_violet" ELSE "done"]
    /\ UNCHANGED <<cache, bvars, xvars, tvars, nq, dl, rd>>

(***************************************************************************)
(* Properties of build_frame_cache and convert_raw_session (under Spec)    *)
(***************************************************************************)
\* The video the running call reads.
Source == call.folder_path[1]

\* The frames the call can have stored: the reported count caps the delivered.
Stored(v) == Min(v.count, Len(v.frames))

FrameSize(v) == v.shape[1] * v.shape[2]

\* Row i (from 0) of a flat file of rows of sz bytes.
Row(dat, i, sz) == SubSeq(dat, i * sz + 1, (i + 1) * sz)

\* The call ran the build (it did not short-circuit) and has returned.
BuildCompleted == bpc = "returned" /\ loc.opened

\* build_frame_cache is at work, or has just returned or raised.
InCall == bpc # "idle"

BuildRequired == ~(pre.hasDat /\ ~call.overwrite)

\* C1 Count truncation: after a completed build meta.json records the number
\* of frames written, min(N, k), frames.dat has N rows, and rows 0..min(N,k)-1
\* hold the delivered frames (in grayscale) in capture order.
C1_CountTruncation ==
    BuildCompleted =>
        LET f == Folder(call.target)
        IN  /\ f.hasMeta
            /\ f.meta.total_num_samples = Stored(Source)
            /\ f.hasDat
            /\ Len(f.dat) = Source.count * FrameSize(Source)
            /\ \A i \in 0..(Stored(Source) - 1) :
                  Row(f.dat, i, FrameSize(Source)) = BGR2GRAY(Source.frames[i + 1])

\* A completed build of a source that delivers fewer frames than it reports.
C1_Witness ==
    /\ BuildCompleted
    /\ Len(Source.frames) < Source.count
    /\ Len(Source.frames) >= 2
    /\ Source.frames[1] # Source.frames[2]

\* C2 Idempotence: when frames.dat exists at entry and overwrite is false, the
\* call returns without raising, never opens or iterates the video, and leaves
\* frames.dat and meta.json as they were at entry; for every call of every run.
C2_Idempotent ==
    (InCall /\ pre.hasDat /\ ~call.overwrite) =>
        /\ bpc \in {"check", "returned"}
        /\ err = "none"
        /\ ~loc.opened
        /\ loc.pos = 0
        /\ Folder(call.target) = pre

\* A short-circuited call whose source folder holds a video other than the
\* one the cache was built from.
C2_Witness ==
    /\ bpc = "returned"
    /\ pre.hasDat /\ pre.hasMeta /\ ~call.overwrite
    /\ Len(call.folder_path) = 1
    /\ pre.meta.total_num_samples # Stored(Source)

\* C3 Every call that returns, returns the path of the cache folder it used.
C3_ReturnsCacheFolder ==
    bpc = "returned" => ret = call.target

\* C4 When a build is required, zero '*.frames.mov' files raise the not-found
\* error, more than one raise the ambiguous-source error, and the build
\* proceeds only with exactly one.
C4_ExactlyOneSource ==
    (InCall /\ BuildRequired) =>
        /\ bpc \in {"open", "alloc", "extend", "loop", "flush", "meta", "dump",
                    "stat", "returned"}
              => Len(call.folder_path) = 1
        /\ (bpc \notin {"check", "glob"} /\ Len(call.folder_path) = 0)
              => (bpc = "raised" /\ err = "FileNotFoundError")
        /\ (bpc \notin {"check", "glob"} /\ Len(call.folder_path) > 1)
              => (bpc = "raised" /\ err = "ValueError")

\* A forced rebuild over an existing cache that finds two source files.
C4_Witness ==
    /\ bpc = "raised"
    /\ err = "ValueError"
    /\ pre.hasDat /\ call.overwrite
    /\ Len(call.folder_path) = 2

\* The cache a build of video v leaves in an empty folder.
CacheOf(v) ==
    [hasDat |-> TRUE,
     dat |-> [j \in 1..(v.count * FrameSize(v)) |->
                 IF (j - 1) \div FrameSize(v) < Stored(v)
                 THEN GrayPixel(v.frames[((j - 1) \div FrameSize(v)) + 1]
                                        [((j - 1) % FrameSize(v)) + 1])
                 ELSE 0],
     hasMeta |-> TRUE,
     meta |-> [total_num_samples |-> Stored(v), height |-> v.shape[1],
               width |-> v.shape[2], dtype |-> v.dtype, fps |-> v.fps]]

\* C5 Force rebuild: a call with overwrite=true that returns leaves frames.dat
\* and meta.json describing the current source only, whatever the folder held.
C5_ForceRebuild ==
    (bpc = "returned" /\ call.overwrite) => Folder(call.target) = CacheOf(Source)

\* A forced rebuild over a complete cache that held more frames.
C5_Witness ==
    /\ bpc = "returned"
    /\ call.overwrite
    /\ pre.hasDat /\ pre.hasMeta
    /\ pre.meta.total_num_samples > Stored(Source)
    /\ Len(pre.dat) > Stored(Source) * FrameSize(Source)

\* C6 Pipeline ordering: an interface is constructed, and frames are read, only
\* after build_frame_cache has returned (having stored every frame, flushed and
\* written meta.json if it built) and validate_cache has returned; when the
\* build or the validation raises, no interface is constructed.
C6_GateBeforeExtractors ==
    /\ (constructed # {} \/ ppc \in {"align", "run", "done"}) =>
          /\ bpc = "returned"
          /\ err = "none"
          /\ {"build", "validate"} \subseteq passed
          /\ loc.opened =>
                /\ loc.frame_index = Stored(loc.video)
                /\ loc.mem = "flushed"
                /\ loc.released
                /\ loc.metaWritten
    /\ (perr \in {"build", "validate"} \/ bpc = "raised") => constructed = {}

\* A session that built the cache, constructed both interfaces and read them.
C6_Witness ==
    /\ ppc = "done"
    /\ constructed = {"ImagingBlue", "ImagingViolet"}
    /\ loc.opened
    /\ call.caller = "session"


\* The rows of frames.dat a build has written: every grey value of a frame is
\* positive, and an allocated row that was not written is zero.
WrittenRows(f) ==
    LET sz == f.meta.height * f.meta.width
    IN  Cardinality({i \in 0..((Len(f.dat) \div sz) - 1) :
                        Row(f.dat, i, sz) # Zeros(sz)})

\* C26 Complete cache after every normal return: whenever build_frame_cache
\* has returned, the folder holds frames.dat and a meta.json whose
\* total_num_samples is the number of written rows of that frames.dat.
C26_CompleteAfterReturn ==
    bpc = "returned" =>
        LET f == Folder(call.target)
        IN  /\ f.hasDat
            /\ MetaParsable(f)
            /\ f.meta.total_num_samples = WrittenRows(f)

\* C27 Write order inside one build: meta.json is written only after the last
\* frame is stored and the memmap is flushed, and the video is released when
\* the build returns.
C27_WriteOrder ==
    /\ (InCall /\ bpc = "dump") =>
          /\ loc.mem = "flushed"
          /\ loc.frame_index = Stored(loc.video)
    /\ (InCall /\ loc.metaWritten) =>
          /\ loc.mem = "flushed"
          /\ loc.frame_index = Stored(loc.video)
          /\ Folder(call.target).meta.total_num_samples = loc.frame_index
    /\ BuildCompleted => (loc.released /\ loc.mem = "flushed" /\ loc.metaWritten)

\* A build of two frames or more has written meta.json and has not returned yet.
C27_Witness ==
    /\ bpc = "stat"
    /\ loc.metaWritten
    /\ loc.released
    /\ loc.frame_index >= 2

(***************************************************************************)
(* Properties of the extractor (under SpecExtractor)                       *)
(***************************************************************************)
\* The log entries the extractor retains: parsed and cut to the cached count.
Retained == GetCameraLogMetadata(camlog, ex.total_num_samples)

\* The positions of a channel's entries in a parsed log.
PositionsOf(entries, channel_id) ==
    {k \in DOMAIN entries : entries[k].channel_id = channel_id}

Range(seq) == {seq[i] : i \in DOMAIN seq}

\* The frame indices the extractor computes for a channel (lines 81-84).
SelectChannel(entries, channel_id) == FrameIndices(FilterChannel(entries, channel_id))

\* C7 Channel selection: the frame indices of an extractor are frame_id - 1 of
\* the retained entries of its channel, one per entry and in the log's order.
C7_ChannelSelection ==
    ex.state = "ok" =>
        LET pos == PositionsOf(Retained, ex.channel_id)
        IN  /\ \E i \in DOMAIN LightSourceProperties :
                  /\ LightSourceProperties[i].wavelength = ex.excitation_wavelength_nm
                  /\ LightSourceProperties[i].LED = ex.channel_id
            /\ Len(ex.frame_indices) = Cardinality(pos)
            /\ \A k \in pos :
                  ex.frame_indices[Cardinality({j \in pos : j <= k})]
                     = Retained[k].frame_id - 1

\* An extractor whose channel's frames are interleaved with the other
\* channel's and are not in increasing order in the log.
C7_Witness ==
    /\ ex.state = "ok"
    /\ Len(ex.frame_indices) = 2
    /\ ex.frame_indices[1] > ex.frame_indices[2]
    /\ Retained[2].channel_id # ex.channel_id

\* C8 as claimed: for every log with exactly two channel ids the two sample
\* counts sum to the number of retained entries and the index sets are disjoint.
C8_Partition ==
    ex.state = "ok" =>
        \A a \in UniqueChannels(Retained), b \in UniqueChannels(Retained) :
            a # b =>
               /\ (a = ex.channel_id =>
                      get_num_samples(ex) = Len(SelectChannel(Retained, a)))
               /\ Len(SelectChannel(Retained, a)) + Len(SelectChannel(Retained, b))
                     = Len(Retained)
               /\ Range(SelectChannel(Retained, a))
                     \cap Range(SelectChannel(Retained, b)) = {}

DistinctFrameIds(entries) ==
    \A i \in DOMAIN entries, j \in DOMAIN entries :
        i # j => entries[i].frame_id # entries[j].frame_id

\* C8 Channel partition law, amended: the two sample counts sum to the number
\* of retained entries for every log with exactly two channel ids; the index
\* sets are disjoint when the retained frame_ids are pairwise distinct.
C8_PartitionDistinctIds ==
    ex.state = "ok" =>
        \A a \in UniqueChannels(Retained), b \in UniqueChannels(Retained) :
            a # b =>
               /\ (a = ex.channel_id =>
                      get_num_samples(ex) = Len(SelectChannel(Retained, a)))
               /\ Len(SelectChannel(Retained, a)) + Len(SelectChannel(Retained, b))
                     = Len(Retained)
               /\ DistinctFrameIds(Retained) =>
                     Range(SelectChannel(Retained, a))
                        \cap Range(SelectChannel(Retained, b)) = {}

\* An extractor on a log of three entries with distinct frame ids, two of its
\* own channel and one of the other.
C8_Witness ==
    /\ ex.state = "ok"
    /\ Len(Retained) = 3
    /\ DistinctFrameIds(Retained)
    /\ get_num_samples(ex) = 2

\* C9 No out-of-bounds indexing: every frame index of a constructed extractor
\* is a row recorded in meta.json.
C9_IndicesInBounds ==
    ex.state = "ok" =>
        \A i \in DOMAIN ex.frame_indices :
            0 <= ex.frame_indices[i] /\ ex.frame_indices[i] < ex.total_num_samples

\* get_series was called with integers 0 <= start < end <= get_num_samples().
SliceInRange ==
    /\ series.status # "none"
    /\ series.start_sample # None
    /\ series.end_sample # None
    /\ 0 <= series.start_sample[1]
    /\ series.start_sample[1] < series.end_sample[1]
    /\ series.end_sample[1] <= get_num_samples(ex)

\* The rows a read returned are the rows the channel's indices name (a negative
\* index counting from the last row, as numpy reads it), each the grey frame
\* the builder stored there.
ReturnedExactRows ==
    /\ series.status = "ok"
    /\ Len(series.frames) = series.end_sample[1] - series.start_sample[1]
    /\ \A j \in 1..Len(series.frames) :
          LET idx == ex.frame_indices[series.start_sample[1] + j]
              row == IF idx < 0 THEN idx + ex.total_num_samples ELSE idx
          IN  /\ 0 <= row
              /\ row < FramesStored(loc.video, 0)
              /\ series.frames[j] = BGR2GRAY(loc.video.frames[row + 1])

\* C10 Read gathers exact rows: for 0 <= start < end <= len(I), get_series
\* returns the frames of cache rows I[start], ..., I[end-1], in that order, each
\* the frame the builder wrote into that row.
C10_ReadExactRows ==
    SliceInRange => ReturnedExactRows

\* The same for the channels whose indices are rows of the cache (what holds
\* of get_series apart from C9).
ReadExactRowsInBounds ==
    (SliceInRange /\ C9_IndicesInBounds) => ReturnedExactRows

\* start_sample and end_sample of the last call, with their defaults.
StartOf(r) == IF r.start_sample = None THEN 0 ELSE r.start_sample[1]

EndOf(r) == IF r.end_sample = None THEN get_num_samples(ex) ELSE r.end_sample[1]

\* C11 as claimed: a get_series(start, end) that does not fail returns exactly
\* end - start frames, for all integers start and end.
C11_ReadShape ==
    (series.status = "ok" /\ series.start_sample # None /\ series.end_sample # None)
        => Len(series.frames) = series.end_sample[1] - series.start_sample[1]

\* C11 Read shape contract, amended: a get_series(start, end) with start >= 0
\* and end >= 0 (None standing for 0 and for the sample count) that does not
\* fail returns min(end, n) - start frames, n the channel's sample count; that
\* is end - start frames exactly when end <= n.
C11_ReadShapeClamped ==
    (series.status = "ok" /\ StartOf(series) >= 0 /\ EndOf(series) >= 0)
        => /\ Len(series.frames)
                 = Min(EndOf(series), get_num_samples(ex)) - StartOf(series)
           /\ (EndOf(series) <= get_num_samples(ex)
                 => Len(series.frames) = EndOf(series) - StartOf(series))

\* A read with end beyond the sample count that returned the frames there are.
C11_Witness ==
    /\ series.status = "ok"
    /\ series.start_sample = <<1>>
    /\ series.end_sample = <<3>>
    /\ get_num_samples(ex) = 2
    /\ Len(series.frames) = 1

\* The cases of an empty slice [start, end) of the channel's index sequence.
EmptySelection ==
    \/ get_num_samples(ex) = 0
    \/ series.end_sample = <<0>>
    \/ StartOf(series) >= get_num_samples(ex)
    \/ (StartOf(series) >= 0 /\ EndOf(series) >= 0
           /\ StartOf(series) >= EndOf(series))

\* C12 Empty selection is an error: a get_series whose slice is empty raises
\* the 'No frames selected' ValueError, and no get_series returns an empty array.
C12_EmptySelectionRaises ==
    series.status # "none" =>
        /\ (EmptySelection =>
               /\ series.status = "raised"
               /\ series.error = "ValueError: No frames selected")
        /\ (series.status = "ok" => Len(series.frames) > 0)

\* get_series(None, 0) on a channel that has frames, and a read of a channel
\* that has none.
C12_Witness ==
    /\ series.status = "raised"
    /\ series.error = "ValueError: No frames selected"
    /\ \/ (series.end_sample = <<0>> /\ series.start_sample = None
              /\ get_num_samples(ex) = 2)
       \/ (get_num_samples(ex) = 0 /\ series.start_sample = None
              /\ series.end_sample = None)

\* The extractor's wavelength has a row in the light source properties table.
WavelengthKnown ==
    RowsWithWavelength(LightSourceProperties, ex.excitation_wavelength_nm) # <<>>

\* C14 as claimed: construction fails whenever the camera log file does not
\* contain exactly two distinct channel ids.
C14_ChannelCount ==
    ex.state # "none" =>
        (Cardinality(UniqueChannels(MatchingEntries(camlog))) # 2
            => ex.state = "raised")

\* C14 Channel-count validation, amended: construction fails whenever the
\* retained entries of the log (the first total_num_samples matching lines) do
\* not hold exactly two distinct channel ids, with the 'Expected 2 channels'
\* ValueError when the log parses and the wavelength is known, and it succeeds
\* only for exactly two.
C14_ChannelCountRetained ==
    ex.state # "none" =>
        /\ (Cardinality(UniqueChannels(Retained)) # 2 => ex.state = "raised")
        /\ ((Cardinality(UniqueChannels(Retained)) # 2 /\ ~ParseRaises(camlog)
               /\ WavelengthKnown) => ex.error = "ValueError")
        /\ (ex.state = "ok" => Cardinality(UniqueChannels(Retained)) = 2)

\* A construction refused for a log of three channel ids.
C14_Witness ==
    /\ ex.state = "raised"
    /\ ex.error = "ValueError"
    /\ Cardinality(UniqueChannels(Retained)) = 3

\* The typed entries of the lines of the exact form, in file order.
ExactEntries(lines) ==
    LET exact == SelectSeq(lines, LAMBDA line : line.kind = "led")
    IN  [i \in DOMAIN exact |->
            [channel_id |-> exact[i].channel_id, frame_id |-> exact[i].frame_id,
             timestamp |-> exact[i].timestamp]]

\* C15 Log parsing ignores everything else: parsing raises no error, and the
\* entries are those of the lines of the exact form '#LED:<int>,<int>,<float>',
\* one per line and in file order.
C15_ParseSkipsOthers ==
    (ex.state # "none" /\ cache.hasMeta) =>
        /\ ex.error # "ValueError: could not convert string to float"
        /\ MatchingEntries(camlog) = ExactEntries(camlog)

\* C16 Log truncation: the retained entries are the first total_num_samples
\* matching lines in file order, all of them when there are fewer, and the
\* extractor counts its channels over these.
C16_LogTruncation ==
    (ex.state # "none" /\ ~ParseRaises(camlog)) =>
        LET m == MatchingEntries(camlog)
            k == Min(ex.total_num_samples, Len(m))
        IN  /\ Len(Retained) = k
            /\ \A i \in 1..k : Retained[i] = m[i]
            /\ (ex.state = "ok" \/ ex.error = "ValueError") =>
                  ex.num_channels = Cardinality({m[i].channel_id : i \in 1..k})

\* An extractor on a log of three matching lines and a cache of two frames.
C16_Witness ==
    /\ ex.state = "ok"
    /\ Len(MatchingEntries(camlog)) = 3
    /\ ex.total_num_samples = 2
    /\ Len(Retained) = 2

\* C17 Incomplete log is fatal: constructing an extractor on a log with fewer
\* matching entries than the cache has frames raises.
C17_IncompleteLogFatal ==
    (ex.state # "none" /\ Len(MatchingEntries(camlog)) < ex.total_num_samples)
        => ex.state = "raised"

\* C18 Unknown wavelength: constructing an extractor with a wavelength that has
\* no row in the properties table raises the 'No properties found' ValueError.
C18_UnknownWavelengthError ==
    (ex.state # "none" /\ ~ParseRaises(camlog) /\ ~WavelengthKnown)
        => (ex.state = "raised" /\ ex.error = "ValueError: No properties found")

\* C23 Sampling-rate halving: the sampling frequency of a constructed
\* extractor is the fps of meta.json divided by the two channels of the log,
\* exactly: twice the frequency is the fps.
C23_SamplingRateHalved ==
    ex.state = "ok" =>
        LET r == get_sampling_frequency(ex)
        IN  /\ r.den # 0
            /\ 2 * r.num = cache.meta.fps * r.den
            /\ Cardinality(UniqueChannels(Retained)) * r.num = cache.meta.fps * r.den

\* An extractor on a cache recorded at 25 frames per second: 12.5 per channel.
C23_Witness ==
    /\ ex.state = "ok"
    /\ cache.meta.fps = 25
    /\ get_sampling_frequency(ex) = [num |-> 25, den |-> 2]

\* C28 Selected channel is present: the channel id of a constructed extractor
\* is one of the channel ids of the log, so the extractor has samples and
\* native timestamps.
C28_SelectedChannelPresent ==
    ex.state = "ok" =>
        /\ ex.channel_id \in UniqueChannels(Retained)
        /\ get_num_samples(ex) > 0
        /\ ~get_native_timestamps(ex, None, None).none

(***************************************************************************)
(* Properties of extractors sharing a cache folder (under SpecReaders)     *)
(***************************************************************************)
\* The extractors alive on the cache folder, each with its last read.
LiveReaders == {[ex |-> ex, series |-> series]} \cup {rd[r] : r \in Others}

\* The frame indices a read has selected.
IndicesRead(reader) ==
    SelectedIndices(reader.ex.frame_indices,
                    IF reader.series.start_sample = None THEN 0
                    ELSE reader.series.start_sample[1],
                    IF reader.series.end_sample = None
                    THEN Len(reader.ex.frame_indices)
                    ELSE reader.series.end_sample[1])

\* C13 Read-only reader: whatever extractors are alive on the cache and in
\* whatever order they are constructed, read and released, frames.dat and
\* meta.json are as the build left them, every read returns what the same read
\* returns from the cache as the build left it, and two reads of the same frame
\* index by any two extractors return the same row.
C13_ReadOnly ==
    /\ cache = BuiltFolder(loc.video)
    /\ \A a \in LiveReaders :
          a.series # NoSeries =>
             a.series = SeriesOf(BuiltFolder(loc.video), a.ex,
                                 a.series.start_sample, a.series.end_sample)
    /\ \A a \in LiveReaders, b \in LiveReaders :
          (a.series.status = "ok" /\ b.series.status = "ok") =>
             \A i \in DOMAIN a.series.frames, j \in DOMAIN b.series.frames :
                IndicesRead(a)[i] = IndicesRead(b)[j]
                   => a.series.frames[i] = b.series.frames[j]

\* The functional and the isosbestic extractor are alive together and each
\* holds frames it has read; a second functional extractor would hold the same
\* rows as the first.
C13_Witness ==
    /\ ex.state = "ok"
    /\ ex.excitation_wavelength_nm = 470
    /\ series.status = "ok"
    /\ Len(series.frames) = 2
    /\ rd[2].ex.state = "ok"
    /\ rd[2].ex.excitation_wavelength_nm = 405
    /\ rd[2].series.status = "ok"
    /\ rd[2].series.frames[1] # Zeros(FrameSize(loc.video))

(***************************************************************************)
(* Properties of the selection of aligned times (under SpecTimes)          *)
(***************************************************************************)
\* The rows of the table with the requested wavelength.
RowsFor == {i \in DOMAIN al.table :
               al.table[i].wavelength = al.excitation_wavelength_nm}

\* C19 Wavelength resolution: the channel id is that of the first row of the
\* table whose wavelength is the requested one, and the 'No channel ID found'
\* ValueError is raised when there is no such row.
C19_WavelengthResolution ==
    al.pc \in {"resolved", "returned", "raised"} =>
        IF RowsFor = {}
        THEN al.pc = "raised" /\ al.error = "ValueError: No channel ID found"
        ELSE /\ al.error # "ValueError: No channel ID found"
             /\ \E i \in RowsFor :
                   /\ \A j \in RowsFor : i <= j
                   /\ al.channel_id = al.table[i].channel_id

\* With rows {2, 470} and {3, 405}, 470 has resolved to 2.
C19_Witness ==
    /\ al.pc = "resolved"
    /\ al.table = <<[channel_id |-> 2, wavelength |-> 470],
                    [channel_id |-> 3, wavelength |-> 405]>>
    /\ al.excitation_wavelength_nm = 470
    /\ al.channel_id = 2

\* The positions of the resolved channel in the light-source array.
MemberPositions == {i \in DOMAIN al.light_sources :
                       al.light_sources[i] = al.channel_id}

\* C20 Temporal filter: for arrays of equal length the result is the
\* subsequence of aligned_times at the positions where channel_membership is
\* the resolved channel id, in the original order.
C20_TemporalFilter ==
    (al.pc \in {"returned", "raised"} /\ RowsFor # {}
        /\ Len(al.all_times) = Len(al.light_sources)) =>
        /\ al.pc = "returned"
        /\ Len(al.times) = Cardinality(MemberPositions)
        /\ \A k \in MemberPositions :
              al.times[Cardinality({j \in MemberPositions : j <= k})]
                 = al.all_times[k]

\* Membership [0,1,0,1,0,1,0,1,0,1] and channel 1: five of the ten times.
C20_Witness ==
    /\ al.pc = "returned"
    /\ al.light_sources = [i \in 1..10 |-> (i - 1) % 2]
    /\ Len(al.all_times) = 10
    /\ al.channel_id = 1
    /\ Len(al.times) = 5
    /\ al.times = <<20, 40, 60, 80, 100>>

(***************************************************************************)
(* Properties of the NIDQ metadata (under SpecNidq)                        *)
(***************************************************************************)
\* The devices wired to an 'AI<n>' input and the devices wired to a 'P0.<n>'
\* pin with configured labels.
WiredAnalog ==
    {d \in AnalogDevices :
        \E k \in DOMAIN nq.wiring.SYNC_WIRING_ANALOG :
            k.prefix = "AI" /\ nq.wiring.SYNC_WIRING_ANALOG[k] = d}

WiredDigital ==
    {d \in DigitalDevices \cap DIGITAL_DEVICE_LABELS :
        \E k \in DOMAIN nq.wiring.SYNC_WIRING_DIGITAL :
            k.prefix = "P0." /\ nq.wiring.SYNC_WIRING_DIGITAL[k] = d}

\* C24 NIDQ metadata from wiring: for device_metadata of the documented
\* structure the result has, under TimeSeries[metadata_key] and
\* Events[metadata_key], the entry of every device that is wired and
\* described, and of no other.
C24_NidqMetadataFromWiring ==
    (nq.pc = "returned" /\ nq.structure = "documented") =>
        /\ DOMAIN nq.TimeSeries = WiredAnalog \cap nq.analog
        /\ \A d \in DOMAIN nq.TimeSeries : nq.TimeSeries[d] = DeviceEntry(d)
        /\ DOMAIN nq.Events = WiredDigital \cap nq.digital
        /\ \A d \in DOMAIN nq.Events : nq.Events[d] = DeviceEntry(d)

(***************************************************************************)
(* Properties of the download (under SpecDownload)                         *)
(***************************************************************************)
\* C30 Rejected download leaves the cache alone: the call raises ValueError
\* when one is None or the mode is neither 'raw' nor 'processed', and then the
\* cache directory is as it was at the call.
C30_RejectedDownloadKeepsCache ==
    /\ (dl.pc \in {"returned", "raised"}
          /\ (dl.one = "None" \/ dl.mode \notin {"raw", "processed"}))
         => (dl.pc = "raised" /\ dl.error = "ValueError")
    /\ dl.pc = "raised" => dl.cache_dir = dl.before

(***************************************************************************)
(* Properties of the interfaces and the converter (under SpecConverter)    *)
(***************************************************************************)
\* The aligned times of the frames of one excitation wavelength.
TimesOfWavelength(excitation_wavelength_nm) ==
    LET p == cv.processed[1]
    IN  TimesPerChannelId(p.all_times, p.light_sources,
                          get_channel_id_from_wavelength(excitation_wavelength_nm,
                                                         p.table).channel_id).times

\* The aligned times temporally_align_data_interfaces selects for an interface.
SelectedTimes(name) == TimesOfWavelength(AlignmentWavelength(name, cv.interfaces[name]))

\* The alignment of interface `name` has been run (and has ended or raised).
AlignmentRan(name) ==
    \/ cv.pc = "done"
    \/ cv.pc = "raised" /\ cv.phase = "align" /\ cv.at = name
    \/ name = "ImagingBlue" /\ cv.pc = "align_violet"
    \/ name = "ImagingBlue" /\ cv.pc = "raised" /\ cv.phase = "align"

\* C21: alignment length mismatch is fatal.  Whenever the number of aligned
\* times selected for an interface differs from its get_num_samples(), the
\* conversion fails at the alignment and no times are set on the interface;
\* times that are set are exactly the selected ones, one per sample, never
\* truncated or padded.
C21_AlignmentMismatchFatal ==
    \A name \in InterfaceNames :
        LET i == cv.interfaces[name]
        IN  /\ (cv.has_paths /\ AlignmentRan(name)
                  /\ Len(SelectedTimes(name)) # get_num_samples(i.extractor))
                 => /\ cv.pc = "raised"
                    /\ cv.phase = "align"
                    /\ i.times = None
            /\ i.times # None
                 => /\ i.times[1] = SelectedTimes(name)
                    /\ Len(i.times[1]) = get_num_samples(i.extractor)

\* The cache holds fewer frames than the log and the aligned times, and the
\* alignment has raised for it.
C21_Witness ==
    /\ cv.pc = "raised"
    /\ cv.phase = "align"
    /\ cv.error = "AssertionError"
    /\ cache.meta.total_num_samples < Len(camlog)
    /\ Len(cv.processed[1].all_times) = Len(camlog)

\* C22: timestamp source precedence.  With a processed data folder the
\* interfaces carry the aligned times after the alignment; without one the
\* alignment completes without error and the interfaces keep the native
\* timestamps of the camera log.
C22_TimestampPrecedence ==
    /\ (cv.pc = "done" /\ cv.processed # None)
         => \A name \in InterfaceNames :
               TimestampsOf(cv.interfaces[name]) = SelectedTimes(name)
    /\ (cv.processed = None /\ AlignmentRan("ImagingBlue"))
         => /\ cv.pc # "raised"
            /\ \A name \in InterfaceNames :
                  TimestampsOf(cv.interfaces[name]) =
                     get_native_timestamps(cv.interfaces[name].extractor,
                                           None, None).timestamps

\* C25: the cache is a hard prerequisite.  Constructing the interface on a
\* cache folder without frames.dat fails with FileNotFoundError before an
\* extractor exists, and constructing the extractor on one without meta.json
\* fails with FileNotFoundError before it has read any file.
C25_CachePrerequisite ==
    \A name \in InterfaceNames :
        LET i == cv.interfaces[name]
        IN  /\ (i.state # "none" /\ ~cache.hasDat)
                 => /\ i.state = "raised"
                    /\ i.error = "FileNotFoundError"
                    /\ i.failed_at = "frames.dat"
                    /\ i.extractor = NoExtractor
            /\ (i.extractor.state # "none" /\ ~cache.hasMeta)
                 => /\ i.state = "raised"
                    /\ i.extractor.state = "raised"
                    /\ i.extractor.error = "FileNotFoundError"
                    /\ i.extractor.read = <<>>

\* The interface was constructed on a folder with meta.json and without
\* frames.dat, next to a complete raw data folder, and has raised.
C25_Witness ==
    /\ ~cache.hasDat
    /\ cache.hasMeta
    /\ cv.raw = [htsv |-> 1, camlog |-> 1]
    /\ cv.interfaces["ImagingBlue"].state = "raised"

\* C29: the timestamps match the interface's channel.  The aligned times set
\* on an interface are those of the excitation wavelength the interface was
\* constructed with, for every pair of wavelengths.
C29_TimesOfOwnWavelength ==
    \A name \in InterfaceNames :
        LET i == cv.interfaces[name]
        IN  i.times # None
              => i.times[1] = TimesOfWavelength(i.extractor.excitation_wavelength_nm)

(***************************************************************************)
(* Specification                                                           *)
(***************************************************************************)
Init ==
    /\ cache = EmptyFolder
    /\ tmp = EmptyFolder
    /\ bpc = "idle"
    /\ call = NoCall
    /\ loc = NoLocals
    /\ ret = "unset"
    /\ err = "none"
    /\ pre = EmptyFolder
    /\ ppc = "idle"
    /\ perr = "none"
    /\ passed = {}
    /\ constructed = {}
    /\ camlog = <<>>
    /\ ex = NoExtractor
    /\ series = NoSeries
    /\ rd = NoReaders
    /\ al = NoAligner
    /\ cv = NoConverter
    /\ nq = NoNidq
    /\ dl = NoDownload

Next ==
    \/ BuildCall
    \/ BuildCheck
    \/ BuildGlob
    \/ BuildOpen
    \/ BuildTruncate
    \/ BuildAllocate
    \/ BuildLoop
    \/ BuildFlush
    \/ BuildOpenMeta
    \/ BuildWriteMeta
    \/ BuildReturn
    \/ BuildExit
    \/ SessionStart
    \/ SessionBuilt
    \/ SessionValidate
    \/ SessionConstruct
    \/ SessionAlign
    \/ SessionRun
    \/ SessionExit
    \/ Interrupt


Spec == Init /\ [][Next]_vars

\* The extractor is constructed on the cache a completed build has left.
InitExtractor ==
    /\ \E v \in ReaderVideos :
          /\ cache = BuiltFolder(v)
          /\ call = [folder_path |-> <<v>>, cache_folder_path |-> "cache",
                     overwrite |-> FALSE, target |-> "cache", caller |-> "direct"]
          /\ loc = [video |-> v, opened |-> TRUE, released |-> TRUE,
                    pos |-> FramesStored(v, 0), total_num_samples |-> v.count,
                    frame_index |-> FramesStored(v, 0), mem |-> "flushed",
                    metaWritten |-> TRUE]
    /\ tmp = EmptyFolder
    /\ bpc = "returned"
    /\ ret = BuildReturnValue("cache")
    /\ err = "none"
    /\ pre = EmptyFolder
    /\ ppc = "idle"
    /\ perr = "none"
    /\ passed = {}
    /\ constructed = {}
    /\ camlog \in CameraLogs
    /\ ex = NoExtractor
    /\ series = NoSeries
    /\ rd = NoReaders
    /\ al = NoAligner
    /\ cv = NoConverter
    /\ nq = NoNidq
    /\ dl = NoDownload

NextExtractor ==
    \/ Construct
    \/ GetSeries
    \/ DropSeries
    \/ Release

SpecExtractor == InitExtractor /\ [][NextExtractor]_vars

\* _get_imaging_times_by_excitation_wavelength_nm is called on the files of a
\* processed-data folder.
InitTimes ==
    /\ cache = EmptyFolder
    /\ tmp = EmptyFolder
    /\ bpc = "idle"
    /\ call = NoCall
    /\ loc = NoLocals
    /\ ret = "unset"
    /\ err = "none"
    /\ pre = EmptyFolder
    /\ ppc = "idle"
    /\ perr = "none"
    /\ passed = {}
    /\ constructed = {}
    /\ camlog = <<>>
    /\ ex = NoExtractor
    /\ series = NoSeries
    /\ rd = NoReaders
    /\ cv = NoConverter
    /\ nq = NoNidq
    /\ dl = NoDownload
    /\ \E excitation_wavelength_nm \in TimesWavelengths, table \in PropertiesTables,
          all_times \in AlignedTimes, light_sources \in LightSources :
          al = [NoAligner EXCEPT !.pc = "called",
                                 !.excitation_wavelength_nm = excitation_wavelength_nm,
                                 !.table = table,
                                 !.all_times = all_times,
                                 !.light_sources = light_sources]

NextTimes ==
    \/ ResolveChannel
    \/ SelectTimes

SpecTimes == InitTimes /\ [][NextTimes]_vars

\* _build_nidq_metadata_from_wiring is called on a wiring and a device_metadata.
InitNidq ==
    /\ cache = EmptyFolder
    /\ tmp = EmptyFolder
    /\ bpc = "idle"
    /\ call = NoCall
    /\ loc = NoLocals
    /\ ret = "unset"
    /\ err = "none"
    /\ pre = EmptyFolder
    /\ ppc = "idle"
    /\ perr = "none"
    /\ passed = {}
    /\ constructed = {}
    /\ camlog = <<>>
    /\ ex = NoExtractor
    /\ series = NoSeries
    /\ rd = NoReaders
    /\ al = NoAligner
    /\ cv = NoConverter
    /\ dl = NoDownload
    /\ \E wiring \in Wirings, structure \in {"documented", "flat"},
          analog \in SUBSET AnalogDevices, digital \in SUBSET DigitalDevices :
          nq = [NoNidq EXCEPT !.pc = "called", !.wiring = wiring,
                              !.structure = structure,
                              !.analog = analog, !.digital = digital]

NextNidq ==
    \/ MapAnalog
    \/ MapDigital

SpecNidq == InitNidq /\ [][NextNidq]_vars

\* download_widefield_session is called on a local ONE cache directory.
InitDownload ==
    /\ cache = EmptyFolder
    /\ tmp = EmptyFolder
    /\ bpc = "idle"
    /\ call = NoCall
    /\ loc = NoLocals
    /\ ret = "unset"
    /\ err = "none"
    /\ pre = EmptyFolder
    /\ ppc = "idle"
    /\ perr = "none"
    /\ passed = {}
    /\ constructed = {}
    /\ camlog = <<>>
    /\ ex = NoExtractor
    /\ series = NoSeries
    /\ rd = NoReaders
    /\ al = NoAligner
    /\ cv = NoConverter
    /\ nq = NoNidq
    /\ \E one \in {"None", "one"}, mode \in DownloadModes,
          redownload_data \in BOOLEAN, cache_dir \in SUBSET LocalFiles :
          dl = [NoDownload EXCEPT !.pc = "called", !.one = one, !.mode = mode,
                                  !.redownload_data = redownload_data,
                                  !.cache_dir = cache_dir, !.before = cache_dir]

NextDownload ==
    \/ DownloadCheckOne
    \/ DownloadClear
    \/ DownloadMatch

SpecDownload == InitDownload /\ [][NextDownload]_vars

\* A conversion: the two imaging interfaces are constructed on a cache folder,
\* the converter is created and the interfaces are temporally aligned.
InitConverter ==
    /\ cache \in ConverterCaches
    /\ tmp = EmptyFolder
    /\ bpc = "idle"
    /\ call = NoCall
    /\ loc = NoLocals
    /\ ret = "unset"
    /\ err = "none"
    /\ pre = EmptyFolder
    /\ ppc = "idle"
    /\ perr = "none"
    /\ passed = {}
    /\ constructed = {}
    /\ camlog \in ConverterLogs
    /\ ex = NoExtractor
    /\ series = NoSeries
    /\ rd = NoReaders
    /\ al = NoAligner
    /\ nq = NoNidq
    /\ dl = NoDownload
    /\ \E raw \in RawFolders, processed \in ProcessedFolders,
          wavelengths \in [InterfaceNames -> {470, 405}] :
          cv = [NoConverter EXCEPT !.pc = "construct_blue", !.raw = raw,
                                   !.processed = processed,
                                   !.wavelengths = wavelengths]

NextConverter ==
    \/ ConstructInterface
    \/ CreateConverter
    \/ AlignInterface

SpecConverter == InitConverter /\ [][NextConverter]_vars

\* Several extractors are constructed on the cache a completed build has left,
\* and read it in any order.
InitReaders ==
    /\ \E v \in ReaderVideos :
          /\ cache = BuiltFolder(v)
          /\ call = [folder_path |-> <<v>>, cache_folder_path |-> "cache",
                     overwrite |-> FALSE, target |-> "cache", caller |-> "direct"]
          /\ loc = [video |-> v, opened |-> TRUE, released |-> TRUE,
                    pos |-> FramesStored(v, 0), total_num_samples |-> v.count,
                    frame_index |-> FramesStored(v, 0), mem |-> "flushed",
                    metaWritten |-> TRUE]
    /\ tmp = EmptyFolder
    /\ bpc = "returned"
    /\ ret = BuildReturnValue("cache")
    /\ err = "none"
    /\ pre = EmptyFolder
    /\ ppc = "idle"
    /\ perr = "none"
    /\ passed = {}
    /\ constructed = {}
    /\ camlog \in ConverterLogs
    /\ ex = NoExtractor
    /\ series = NoSeries
    /\ rd = NoReaders
    /\ al = NoAligner
    /\ cv = NoConverter
    /\ nq = NoNidq
    /\ dl = NoDownload

NextReaders ==
    \/ Construct
    \/ GetSeries
    \/ DropSeries
    \/ Release
    \/ OtherConstruct
    \/ OtherGetSeries
    \/ OtherDropSeries
    \/ OtherRelease

SpecReaders == InitReaders /\ [][NextReaders]_vars

====
